---- MODULE Spec2Model ----
(***************************************************************************)
(* Projector / camera cooperation (software-triggered structured light).   *)
(*                                                                         *)
(* The model covers the five acquisition entry points of the repository:   *)
(*   runProjectorCameraCooperation        common/ProjectorWithCamera.cpp   *)
(*   runVerticalProjectStepAndCapture     vertical-only variant            *)
(*   runHorizontalProjectStepAndCapture   horizontal-only variant          *)
(*   runCameraTest (scalar arguments)     common/CameraTest.cpp, 1st copy  *)
(*   runCameraTest (CameraParams)         common/CameraTest.cpp, 2nd copy  *)
(* together with the frame handler ImageCallbackEx each of them registers. *)
(* The orchestration thread is one process (pc); the camera SDK's delivery *)
(* threads are the processes of Threads, which run the handler.            *)
(* Every device call answers nondeterministically (success or failure).    *)
(***************************************************************************)
EXTENDS Integers, Sequences, FiniteSets, TLC

\* ------------------------------------------------------------------ bounds
MaxN == 2            \* largest phase-step count N / framesToCapture explored
MaxDeliveries == 3   \* handler invocations the camera makes in one session
NumThreads == 2      \* SDK delivery threads that may run the handler at once

\* ------------------------------------------------------- program constants
RPC == "runProjectorCameraCooperation"
RV  == "runVerticalProjectStepAndCapture"
RH  == "runHorizontalProjectStepAndCapture"
CT1 == "runCameraTest(scalars)"
CT2 == "runCameraTest(CameraParams)"

Entries == {RPC, RV, RH, CT1, CT2}
ProjectorEntries == {RPC, RV, RH}
CameraTests == {CT1, CT2}
StepOnly == {RV, RH}

\* the four release calls; each names the resource it gives back
ReleaseCalls == {"StopGrabbing", "CloseDevice", "DestroyHandle", "disConnect"}

Threads == 1..NumThreads
StepsValues == 0..MaxN

MandatorySettings == {"PixelFormat", "TriggerMode", "TriggerSource", "AcquisitionMode"}
BaseSettings == MandatorySettings \cup {"TriggerSelector"}
Params == {"ExposureTime", "Gain", "AcquisitionFrameRate", "TriggerDelay"}
OptionalParams == {"Gain", "AcquisitionFrameRate", "TriggerDelay"}

\* PatternOrderSet timing written by the entry points (microseconds)
exposureTime_ == 4000
preExposureTime_ == 3000
postExposureTime_ == 3000

\* values MV_CC_GetFloatValue("ExposureTime") may report (microseconds)
ExposureSamples == {0, 10000, 6000000}
\* generator arguments explored: width, height, frequency
DimValues == {0, 2}

VARIABLES
    entry,          \* which entry point runs
    steps,          \* argument steps (N) / framesToCapture
    pc,             \* position of the orchestration thread
    i,              \* loop variable of the acquisition loop
    result,         \* "none" while running, then how the entry point ended
    projConnected,  \* projector->connect() succeeded and not yet disConnect()ed
    handleCreated,  \* MV_CC_CreateHandle succeeded and not yet destroyed
    devOpen,        \* MV_CC_OpenDevice succeeded and not yet closed
    grabbing,       \* MV_CC_StartGrabbing succeeded and not yet stopped
    registered,     \* MV_CC_RegisterImageCallBackEx succeeded
    patternsLoaded, \* populatePatternTableData succeeded
    projecting,     \* projector->project() succeeded and not yet stop()ped
    teardownBegun,  \* a release call has been made
    ledger,         \* acquisitions and release calls counted per resource
    baseRejected,   \* base settings the camera rejected
    paramRejected,  \* parameter writes the camera rejected
    stepsIssued,    \* projector->step() calls made
    triggersIssued, \* software trigger commands sent
    trigFailedAt,   \* loop iterations (1-based) whose trigger command failed
    stepFailed,     \* a projector->step() call failed
    lastOp,         \* the orchestration thread's most recent call or sleep
    frameIndex,     \* CallbackContext::frameIndex (std::atomic<int>)
    cb,             \* per delivery thread: handler position and local idx
    deliveries,     \* handler invocations that passed the argument checks
    assigned,       \* indices handed out by the handler, in order
    written,        \* file names the handler has persisted this session
    writeFailed,    \* indices whose cv::imwrite failed
    discards,       \* handler invocations that skipped persisting (idx > total)
    latestImage,    \* g_latestImage: "empty", a "frame", or "torn" by a data race
    call            \* a computation applied on its own: function, inputs, output

orchVars == <<entry, steps, pc, i, result, projConnected, handleCreated, devOpen,
              grabbing, registered, patternsLoaded, projecting, teardownBegun,
              ledger, baseRejected, paramRejected, stepsIssued, triggersIssued,
              trigFailedAt, stepFailed, lastOp, call>>
cbVars == <<frameIndex, cb, deliveries, assigned, written, writeFailed, discards,
            latestImage>>
vars == <<orchVars, cbVars>>

\* ------------------------------------------------------------ pure helpers
Max(a, b) == IF a >= b THEN a ELSE b

\* variant of LoopCount: one pass of N iterations instead of 2N
LoopCountSinglePass == steps

\* number of iterations of the acquisition loop
LoopCount == IF entry = RPC THEN steps * 2 ELSE steps

\* CallbackContext::totalFrames / CbCtx::total as the entry point sets it
totalFrames == IF entry = RPC THEN steps * 2 ELSE steps

\* variant of stepsPerOrientation: the context is given the total frame count
stepsPerOrientationAsTotal == steps * 2

\* CallbackContext::stepsPerOrientation
stepsPerOrientation == steps

\* std::snprintf("%03d") for the small non-negative indices of the model
Pad3(n) == IF n < 10 THEN "00" \o ToString(n)
           ELSE IF n < 100 THEN "0" \o ToString(n) ELSE ToString(n)

\* variant of FileName: the index is counted within its orientation and the
\* orientation suffix is left out
FileNamePerOrientation(e, idx) ==
    IF e = RPC
    THEN "I" \o Pad3(IF idx <= stepsPerOrientation THEN idx ELSE idx - stepsPerOrientation) \o ".png"
    ELSE "I" \o ToString(idx) \o ".png"

\* file name the handler of entry point e builds for index idx
FileName(e, idx) ==
    IF e = RPC THEN "I" \o Pad3(idx) \o "_" \o (IF idx <= stepsPerOrientation THEN "V" ELSE "H") \o ".png"
    ELSE IF e = RV THEN "I" \o ToString(idx) \o "_V.png"
    ELSE IF e = RH THEN "I" \o ToString(idx) \o "_H.png"
    ELSE "I" \o ToString(idx) \o ".png"

\* variant of FrameIdx: the value fetch_add returned is used as it is
FrameIdxNoOffset(prev) == prev

\* index the handler derives from the value fetch_add returned
FrameIdx(prev) == 1 + prev

\* variant of ShouldPersist: the bound is off by one
ShouldPersistOffByOne(idx) == idx <= totalFrames + 1

\* the handler's guard for persisting
ShouldPersist(idx) == idx <= totalFrames

\* generatePhaseShiftFringeImages: number of images returned
GenCount(width, height, frequency, n) ==
    IF width <= 0 \/ height <= 0 \/ frequency <= 0 \/ n <= 0 THEN 0 ELSE n * 2

\* timing every PatternOrderSet of the entry points is given
ProgrammedTiming ==
    [pre |-> preExposureTime_, exp |-> exposureTime_, post |-> postExposureTime_]

\* largest value of the int the timing sum is computed in
MaxInt32 == 2147483647

\* smallest value of that int
MinInt32 == -MaxInt32 - 1

\* a + b in int as two's-complement hardware computes it: a sum beyond the
\* range comes back 2^32 away (signed overflow is undefined in the language;
\* the wrapped sum is what the add instruction of the build leaves behind)
Add32(a, b) ==
    IF a > 0 /\ b > 0 /\ a > MaxInt32 - b
      THEN (a - MaxInt32 - 1) + (b - MaxInt32 - 1)
    ELSE IF a < 0 /\ b < 0 /\ a < MinInt32 - b
      THEN (a + MaxInt32 + 1) + (b + MaxInt32 + 1)
    ELSE a + b

\* a / b of two ints, b > 0: the quotient is truncated toward zero
TruncDiv(a, b) == IF a >= 0 THEN a \div b ELSE (a + (b - 1)) \div b

\* variant of StabilizationWait: the 10 ms margin is left out
StabilizationWaitNoMargin(e, t) ==
    LET ms == TruncDiv(Add32(Add32(t.pre, t.exp), t.post), 1000)
    IN  IF e = RPC THEN (IF ms < 1 THEN 1 ELSE ms)
        ELSE Max(ms, 50)

\* body of the waitMsFromTiming lambda (RPC) / the waitMs expression of the
\* step-only variants, for a PatternOrderSet with timing t (microseconds)
StabilizationWait(e, t) ==
    LET ms == TruncDiv(Add32(Add32(t.pre, t.exp), t.post), 1000)
    IN  IF e = RPC THEN (IF ms < 1 THEN 1 ELSE ms) + 10
        ELSE Max(ms + 10, 50)

\* variant of GoverningSet: the vertical set governs every step
GoverningSetAlwaysVertical(e, i0) == 1

\* which PatternOrderSet (1 = patternSets[0], vertical; 2 = patternSets[1],
\* horizontal) gives the timing for loop iteration i0 (0-based): isVerticalNow
\* in RPC; the step-only variants have patternSets[0] alone
GoverningSet(e, i0) == IF e = RPC /\ ~(i0 < steps) THEN 2 ELSE 1

\* stabilization wait of the entry points as programmed: both sets carry
\* ProgrammedTiming
waitMsFromTiming(e) == StabilizationWait(e, ProgrammedTiming)

\* variant of ExposureWaitMs: the 500 ms buffer is left out
ExposureWaitMsNoBuffer(queryOk, cur) ==
  IF queryOk
    THEN LET w == cur \div 1000 IN IF w > 5000 THEN 5000 ELSE w
    ELSE 1000

\* variant of ExposureWaitMs: the 5000 ms cap is left out
ExposureWaitMsUncapped(queryOk, cur) ==
    IF queryOk THEN (cur \div 1000) + 500 ELSE 1000

\* wait after a trigger, from the ExposureTime query (queryOk, value in us)
ExposureWaitMs(queryOk, cur) ==
    IF queryOk
    THEN LET w == (cur \div 1000) + 500 IN IF w > 5000 THEN 5000 ELSE w
    ELSE 1000

\* variant of TriggerCommand: the selector value is not looked at
TriggerCommandIgnoresValue(queryOk, curValue) ==
    IF queryOk THEN "FrameTriggerSoftware" ELSE "TriggerSoftware"

\* trigger command chosen from the TriggerSelector query
TriggerCommand(queryOk, curValue) ==
    IF queryOk /\ curValue = 0 THEN "FrameTriggerSoftware" ELSE "TriggerSoftware"

\* variant of ConfigureCameraParams: a rejected frame rate also returns false
ConfigureCameraParamsStrictRate(req, rej) ==
    IF "ExposureTime" \in req /\ "ExposureTime" \in rej
    THEN [ok |-> FALSE, rejected |-> {"ExposureTime"}]
    ELSE IF "Gain" \in req /\ "Gain" \in rej
    THEN [ok |-> FALSE, rejected |-> {"Gain"}]
    ELSE IF "AcquisitionFrameRate" \in req /\ "AcquisitionFrameRate" \in rej
    THEN [ok |-> FALSE, rejected |-> {"AcquisitionFrameRate"}]
    ELSE [ok |-> TRUE, rejected |-> req \cap rej \cap {"TriggerDelay"}]

\* configureCameraParams: req = parameters with a value > 0, rej = writes the
\* device rejects.  Returns the writes issued-and-rejected and the result.
ConfigureCameraParams(req, rej) ==
    IF "ExposureTime" \in req /\ "ExposureTime" \in rej
    THEN [ok |-> FALSE, rejected |-> {"ExposureTime"}]
    ELSE IF "Gain" \in req /\ "Gain" \in rej
    THEN [ok |-> FALSE, rejected |-> {"Gain"}]
    ELSE [ok |-> TRUE,
          rejected |-> req \cap rej \cap {"AcquisitionFrameRate", "TriggerDelay"}]

\* inline parameter block of runCameraTest(scalars): results are not checked
ApplyScalarParams(req, rej) == [ok |-> TRUE, rejected |-> req \cap rej]

\* does the entry point act on the result of configureCameraParams?
ChecksConfigureResult(e) == e \in {RPC, CT2}

\* does the entry point check the result of each base setting?
ChecksBaseSettings(e) == e \in CameraTests

\* ------------------------------------------------------------------- Init
Init ==
    /\ entry \in Entries
    /\ steps \in StepsValues
    /\ pc = IF entry \in ProjectorEntries THEN "connect" ELSE "enum"
    /\ i = 0
    /\ result = "none"
    /\ projConnected = FALSE
    /\ handleCreated = FALSE
    /\ devOpen = FALSE
    /\ grabbing = FALSE
    /\ registered = FALSE
    /\ patternsLoaded = FALSE
    /\ projecting = FALSE
    /\ teardownBegun = FALSE
    /\ ledger = [acquired |-> [c \in ReleaseCalls |-> 0],
                 released |-> [c \in ReleaseCalls |-> 0],
                 unheld |-> {}]
    /\ baseRejected = {}
    /\ paramRejected = {}
    /\ stepsIssued = 0
    /\ triggersIssued = 0
    /\ trigFailedAt = {}
    /\ stepFailed = FALSE
    /\ lastOp = [op |-> "none", ms |-> 0]
    /\ frameIndex = 0
    /\ cb = [t \in Threads |-> [pc |-> "idle", idx |-> 0]]
    /\ deliveries = 0
    /\ assigned = <<>>
    /\ written = {}
    /\ writeFailed = {}
    /\ discards = 0
    /\ latestImage = "empty"
    /\ call = [fn |-> "none"]

\* ------------------------------------------------- orchestration thread
inputs == <<entry, steps, call>>
resources == <<projConnected, handleCreated, devOpen, grabbing, teardownBegun, ledger>>

\* is the resource a release call gives back held at this moment?  A device can
\* only be closed through a live handle.
Held(c) ==
    IF c = "StopGrabbing" THEN grabbing
    ELSE IF c = "CloseDevice" THEN devOpen /\ handleCreated
    ELSE IF c = "DestroyHandle" THEN handleCreated
    ELSE projConnected

\* the ledger after a successful acquisition (named by its release call)
Acquire(c) ==
    [ledger EXCEPT !.acquired[c] = @ + 1]

\* the ledger after the release calls of rel, made in the order StopGrabbing,
\* CloseDevice, DestroyHandle, disConnect that every cleanup site uses
Releasing(l, rel) ==
    [l EXCEPT !.released = [c \in ReleaseCalls |-> IF c \in rel THEN @[c] + 1 ELSE @[c]],
              !.unheld = @ \cup {c \in rel : ~Held(c)}]
phase == <<registered, patternsLoaded, projecting>>
cfgHistory == <<baseRejected, paramRejected>>
loopVars == <<i, stepsIssued, triggersIssued, trigFailedAt, stepFailed>>

\* the release calls of rel are made (their return codes are never examined)
Release(rel) ==
    /\ grabbing' = (grabbing /\ "StopGrabbing" \notin rel)
    /\ devOpen' = (devOpen /\ "CloseDevice" \notin rel)
    /\ handleCreated' = (handleCreated /\ "DestroyHandle" \notin rel)
    /\ projConnected' = (projConnected /\ "disConnect" \notin rel)
    /\ teardownBegun' = (teardownBegun \/ rel # {})
    /\ ledger' = Releasing(ledger, rel)

\* the projector entry points add projector->disConnect() to a cleanup
WithProjector(rel) == IF entry \in ProjectorEntries THEN rel \cup {"disConnect"} ELSE rel

CameraCleanup == {"CloseDevice", "DestroyHandle"}
GrabCleanup == {"StopGrabbing", "CloseDevice", "DestroyHandle"}

\* error branch: the calls of rel, then `return false`
Fail(rel) ==
    /\ pc' = "done"
    /\ result' = "false"
    /\ Release(rel)

\* an exception leaves the try block: the projector entry points catch it and
\* return false, runCameraTest has no handler and the exception escapes
Throw ==
    /\ pc' = "done"
    /\ result' = IF entry \in ProjectorEntries THEN "false" ELSE "threw"
    /\ UNCHANGED resources

\* loop head `i < LoopCount` of the acquisition loop
LoopHead(k) ==
    IF k < LoopCount
    THEN (IF entry \in ProjectorEntries THEN "step" ELSE "trigger")
    ELSE (IF entry \in ProjectorEntries THEN "stopProjection" ELSE "postLoopWait")

\* factory.getProjector(model) and projector->connect()
ConnectProjector ==
    /\ pc = "connect"
    /\ lastOp' = [op |-> "connect", ms |-> 0]
    /\ \E got \in BOOLEAN, ok \in BOOLEAN :
          IF got /\ ok
          THEN /\ pc' = "enum"
               /\ projConnected' = TRUE
               /\ ledger' = Acquire("disConnect")
               /\ UNCHANGED <<result, handleCreated, devOpen, grabbing, teardownBegun>>
          ELSE Fail({})
    /\ UNCHANGED <<inputs, phase, cfgHistory, loopVars, cbVars>>

\* MV_CC_EnumDevices and the device selection
EnumDevices ==
    /\ pc = "enum"
    /\ lastOp' = [op |-> "EnumDevices", ms |-> 0]
    /\ \E ok \in BOOLEAN :
          IF ok
          THEN /\ pc' = "createHandle"
               /\ UNCHANGED <<result, resources>>
          ELSE Fail(WithProjector({}))
    /\ UNCHANGED <<inputs, phase, cfgHistory, loopVars, cbVars>>

\* MV_CC_CreateHandle
CreateHandle ==
    /\ pc = "createHandle"
    /\ lastOp' = [op |-> "CreateHandle", ms |-> 0]
    /\ \E ok \in BOOLEAN :
          IF ok
          THEN /\ pc' = "openDevice"
               /\ handleCreated' = TRUE
               /\ ledger' = Acquire("DestroyHandle")
               /\ UNCHANGED <<result, projConnected, devOpen, grabbing, teardownBegun>>
          ELSE Fail(WithProjector({}))
    /\ UNCHANGED <<inputs, phase, cfgHistory, loopVars, cbVars>>

\* MV_CC_OpenDevice
OpenDevice ==
    /\ pc = "openDevice"
    /\ lastOp' = [op |-> "OpenDevice", ms |-> 0]
    /\ \E ok \in BOOLEAN :
          IF ok
          THEN /\ pc' = "baseConfig"
               /\ devOpen' = TRUE
               /\ ledger' = Acquire("CloseDevice")
               /\ UNCHANGED <<result, projConnected, handleCreated, grabbing, teardownBegun>>
          ELSE Fail(WithProjector({"DestroyHandle"}))
    /\ UNCHANGED <<inputs, phase, cfgHistory, loopVars, cbVars>>

\* order of the base configuration commands
BaseOrder == <<"PixelFormat", "TriggerSelector", "TriggerMode", "TriggerSource", "AcquisitionMode">>

\* Base configuration run against a camera that rejects the commands of rej
\* ("TriggerSelectorByValue" is the numeric FrameBurstStart attempt).
\* Returns the rejected commands that were issued and whether the entry point
\* goes on.  runCameraTest stops at the first unrecovered rejection; the
\* projector entry points issue all five commands and examine no result.
RECURSIVE BaseRun(_, _, _, _)
BaseRun(e, rej, k, acc) ==
    IF k > Len(BaseOrder) THEN [ok |-> TRUE, rejected |-> acc]
    ELSE LET s == BaseOrder[k] IN
         IF s \notin rej THEN BaseRun(e, rej, k + 1, acc)
         ELSE IF ~ChecksBaseSettings(e) THEN BaseRun(e, rej, k + 1, acc \cup {s})
         ELSE IF s = "TriggerSelector"
              THEN IF "TriggerSelectorByValue" \notin rej
                   THEN BaseRun(e, rej, k + 1, acc \cup {s})
                   ELSE [ok |-> FALSE, rejected |-> acc \cup {s, "TriggerSelectorByValue"}]
              ELSE [ok |-> FALSE, rejected |-> acc \cup {s}]

\* The base configuration commands issued against that camera, in order: the
\* numeric selector attempt is made only by an entry point that examines the
\* result of the FrameStart attempt, and nothing is issued after an abort.
RECURSIVE BaseIssued(_, _, _)
BaseIssued(e, rej, k) ==
    IF k > Len(BaseOrder) THEN <<>>
    ELSE LET s == BaseOrder[k] IN
         IF s \notin rej \/ ~ChecksBaseSettings(e) THEN <<s>> \o BaseIssued(e, rej, k + 1)
         ELSE IF s = "TriggerSelector"
              THEN IF "TriggerSelectorByValue" \notin rej
                   THEN <<s, "TriggerSelectorByValue">> \o BaseIssued(e, rej, k + 1)
                   ELSE <<s, "TriggerSelectorByValue">>
              ELSE <<s>>

\* Rejection patterns of the camera during configuration.  A session meets at
\* most one setting the camera refuses: one base setting (for the trigger
\* selector: the FrameStart attempt alone, or both attempts) or one parameter.
BaseFaults ==
    {{}} \cup {{s} : s \in MandatorySettings}
         \cup {{"TriggerSelector"}, {"TriggerSelector", "TriggerSelectorByValue"}}

ParamFaults(base) == IF base = {} THEN {{}} \cup {{q} : q \in Params} ELSE {{}}

\* base configuration: Mono8, trigger selector, trigger mode, source, mode
BaseConfig ==
    /\ pc = "baseConfig"
    /\ \E rej \in BaseFaults :
          LET r == BaseRun(entry, rej, 1, {}) IN
          /\ lastOp' = [op |-> "baseConfig", ms |-> 0, refused |-> rej,
                        issued |-> BaseIssued(entry, rej, 1)]
          /\ baseRejected' = r.rejected
          /\ IF r.ok
             THEN /\ pc' = "configure"
                  /\ UNCHANGED <<result, resources>>
             ELSE Fail(CameraCleanup)
    /\ UNCHANGED <<inputs, phase, paramRejected, loopVars, cbVars>>

\* camera parameters: configureCameraParams, or the inline block of
\* runCameraTest(scalars)
ConfigureParams ==
    /\ pc = "configure"
    /\ lastOp' = [op |-> "configure", ms |-> 0]
    /\ \E req \in SUBSET Params, rej \in ParamFaults(baseRejected) :
          LET r == IF entry = CT1 THEN ApplyScalarParams(req, rej)
                   ELSE ConfigureCameraParams(req, rej) IN
          /\ paramRejected' = r.rejected
          /\ IF r.ok \/ ~ChecksConfigureResult(entry)
             THEN /\ pc' = "prepareContext"
                  /\ UNCHANGED <<result, resources>>
             ELSE Fail(WithProjector(CameraCleanup))
    /\ UNCHANGED <<inputs, phase, baseRejected, loopVars, cbVars>>

\* callback context: totalFrames, saveDir (std::filesystem::current_path()
\* throws when outputDir is empty and the working directory is gone)
PrepareContext ==
    /\ pc = "prepareContext"
    /\ lastOp' = [op |-> "prepareContext", ms |-> 0]
    /\ \E cwdThrows \in BOOLEAN :
          IF cwdThrows
          THEN Throw
          ELSE /\ pc' = "register"
               /\ UNCHANGED <<result, resources>>
    /\ UNCHANGED <<inputs, phase, cfgHistory, loopVars, cbVars>>

\* MV_CC_RegisterImageCallBackEx (the step-only variants ignore its result)
RegisterCallback ==
    /\ pc = "register"
    /\ lastOp' = [op |-> "RegisterImageCallBackEx", ms |-> 0]
    /\ \E ok \in BOOLEAN :
          IF ok \/ entry \in StepOnly
          THEN /\ pc' = "startGrabbing"
               /\ registered' = ok
               /\ UNCHANGED <<result, resources>>
          ELSE /\ Fail(WithProjector(CameraCleanup))
               /\ UNCHANGED registered
    /\ UNCHANGED <<inputs, patternsLoaded, projecting, cfgHistory, loopVars, cbVars>>

\* MV_CC_StartGrabbing
StartGrabbing ==
    /\ pc = "startGrabbing"
    /\ lastOp' = [op |-> "StartGrabbing", ms |-> 0]
    /\ \E ok \in BOOLEAN :
          IF ok
          THEN /\ pc' = IF entry \in ProjectorEntries THEN "generate" ELSE LoopHead(0)
               /\ grabbing' = TRUE
               /\ ledger' = Acquire("StopGrabbing")
               /\ UNCHANGED <<result, projConnected, handleCreated, devOpen, teardownBegun>>
          ELSE Fail(WithProjector(CameraCleanup))
    /\ UNCHANGED <<inputs, phase, cfgHistory, loopVars, cbVars>>

\* generatePhaseShiftFringeImages and the check of the image count.
\* runProjectorCameraCooperation aborts on a wrong count; the step-only variants
\* only log it and then form imgs.begin() + steps on the empty vector, which is
\* undefined: the run either goes on with whatever was read or crashes.
Generate ==
    /\ pc = "generate"
    /\ \E width \in DimValues, height \in DimValues, frequency \in DimValues,
          allocThrows \in BOOLEAN, crash \in BOOLEAN :
          LET count == GenCount(width, height, frequency, steps) IN
          /\ lastOp' = [op |-> "generate", ms |-> 0, count |-> count]
          /\ IF allocThrows /\ count > 0
             THEN Throw
             ELSE IF count = steps * 2
             THEN /\ pc' = "populate"
                  /\ UNCHANGED <<result, resources>>
             ELSE IF entry = RPC
             THEN Fail(WithProjector(GrabCleanup))
             ELSE IF crash
             THEN /\ pc' = "done"
                  /\ result' = "crashed"
                  /\ UNCHANGED resources
             ELSE /\ pc' = "populate"
                  /\ UNCHANGED <<result, resources>>
    /\ UNCHANGED <<inputs, phase, cfgHistory, loopVars, cbVars>>

\* imgs_.assign(first, last) on the vector of count generated images: the
\* (0-based) indices of [from, to), or whatever the undefined read of a range
\* outside the vector gives
AssignRange(count, from, to, junk) ==
    IF 0 <= from /\ from <= to /\ to <= count
    THEN [k \in 1..(to - from) |-> from + k - 1]
    ELSE junk

\* variant of PatternSets: the second set of runProjectorCameraCooperation is
\* filled from imgs.begin()
PatternSetsFromBegin(e, count, n, junk) ==
    IF e = RPC
    THEN << [isVertical_ |-> TRUE, imgs_ |-> AssignRange(count, 0, n, junk)],
            [isVertical_ |-> FALSE, imgs_ |-> AssignRange(count, 0, count, junk)] >>
    ELSE IF e = RV
    THEN << [isVertical_ |-> TRUE, imgs_ |-> AssignRange(count, 0, n, junk)] >>
    ELSE << [isVertical_ |-> FALSE, imgs_ |-> AssignRange(count, 0, count, junk)] >>

\* the PatternOrderSets an entry point builds from the generated images:
\* orientation flag and the images assigned
PatternSets(e, count, n, junk) ==
    IF e = RPC
    THEN << [isVertical_ |-> TRUE, imgs_ |-> AssignRange(count, 0, n, junk)],
            [isVertical_ |-> FALSE, imgs_ |-> AssignRange(count, n, count, junk)] >>
    ELSE IF e = RV
    THEN << [isVertical_ |-> TRUE, imgs_ |-> AssignRange(count, 0, n, junk)] >>
    ELSE << [isVertical_ |-> FALSE, imgs_ |-> AssignRange(count, n, count, junk)] >>

\* the pattern sets are built and projector->populatePatternTableData(patternSets)
\* is called
Populate ==
    /\ pc = "populate"
    /\ \E ok \in BOOLEAN, junk \in {<<>>, <<-1>>} :
          /\ lastOp' = [op |-> "populatePatternTableData", ms |-> 0, ok |-> ok,
                        count |-> lastOp.count,
                        sets |-> PatternSets(entry, lastOp.count, steps, junk)]
          /\ IF ok
             THEN /\ pc' = IF entry \in StepOnly THEN "reconnect" ELSE "project"
                  /\ patternsLoaded' = TRUE
                  /\ UNCHANGED <<result, resources>>
             ELSE /\ Fail(WithProjector(GrabCleanup))
                  /\ UNCHANGED patternsLoaded
    /\ UNCHANGED <<inputs, registered, projecting, cfgHistory, loopVars, cbVars>>

\* step-only variants: projector->stop(); disConnect(); connect()
Reconnect ==
    /\ pc = "reconnect"
    /\ lastOp' = [op |-> "connect", ms |-> 0]
    /\ \E ok \in BOOLEAN :
          IF ok
          THEN /\ pc' = "repopulate"
               /\ ledger' = [Releasing(ledger, {"disConnect"})
                                EXCEPT !.acquired["disConnect"] = @ + 1]
               /\ UNCHANGED <<result, projConnected, handleCreated, devOpen, grabbing,
                              teardownBegun>>
          ELSE /\ pc' = "done"
               /\ result' = "false"
               /\ projConnected' = FALSE
               /\ grabbing' = FALSE
               /\ devOpen' = FALSE
               /\ handleCreated' = FALSE
               /\ teardownBegun' = TRUE
               /\ ledger' = Releasing(ledger, GrabCleanup \cup {"disConnect"})
    /\ patternsLoaded' = FALSE
    /\ UNCHANGED <<inputs, registered, projecting, cfgHistory, loopVars, cbVars>>

\* step-only variants: second populatePatternTableData after the reconnect
Repopulate ==
    /\ pc = "repopulate"
    /\ \E ok \in BOOLEAN :
          /\ lastOp' = [op |-> "populatePatternTableData", ms |-> 0, ok |-> ok]
          /\ IF ok
             THEN /\ pc' = "warmup"
                  /\ patternsLoaded' = TRUE
                  /\ UNCHANGED <<result, resources>>
             ELSE /\ Fail(WithProjector(GrabCleanup))
                  /\ UNCHANGED patternsLoaded
    /\ UNCHANGED <<inputs, registered, projecting, cfgHistory, loopVars, cbVars>>

\* step-only variants: setLEDCurrent; project(true); sleep; stop(); sleep
Warmup ==
    /\ pc = "warmup"
    /\ lastOp' = [op |-> "project", ms |-> 0]
    /\ \E ok \in BOOLEAN :
          IF ok
          THEN /\ pc' = "project"
               /\ UNCHANGED <<result, resources>>
          ELSE Fail(WithProjector(GrabCleanup))
    /\ UNCHANGED <<inputs, phase, cfgHistory, loopVars, cbVars>>

\* the argument of the project(...) call that precedes the loop: true asks for
\* continuous projection, false for a single projection
ProjectContinuous(e) == e \in StepOnly

\* the sleep that follows a successful project(...) call
StartupSettleMs(e) == IF e = RPC THEN 200 ELSE 1500

\* projector->project(...) and the startup settle delay
Project ==
    /\ pc = "project"
    /\ \E ok \in BOOLEAN :
          /\ lastOp' = [op |-> "project", ms |-> 0, ok |-> ok,
                        continuous |-> ProjectContinuous(entry),
                        settle |-> IF ok THEN StartupSettleMs(entry) ELSE 0]
          /\ IF ok
             THEN /\ pc' = LoopHead(0)
                  /\ projecting' = TRUE
                  /\ UNCHANGED <<result, resources>>
             ELSE /\ Fail(WithProjector(GrabCleanup))
                  /\ UNCHANGED projecting
    /\ UNCHANGED <<inputs, registered, patternsLoaded, cfgHistory, loopVars, cbVars>>

\* projector->step(); a failure leaves the loop
Step ==
    /\ pc = "step"
    /\ stepsIssued' = stepsIssued + 1
    /\ lastOp' = [op |-> "step", ms |-> 0]
    /\ \E ok \in BOOLEAN :
          /\ pc' = IF ok THEN "stabilize" ELSE "stopProjection"
          /\ stepFailed' = (stepFailed \/ ~ok)
    /\ UNCHANGED <<inputs, result, resources, phase, cfgHistory, i, triggersIssued,
                   trigFailedAt, cbVars>>

\* stabilization sleep between the step and the trigger
Stabilize ==
    /\ pc = "stabilize"
    /\ lastOp' = [op |-> "sleep", ms |-> waitMsFromTiming(entry)]
    /\ pc' = "trigger"
    /\ UNCHANGED <<inputs, result, resources, phase, cfgHistory, loopVars, cbVars>>

\* what the entry point does when MV_CC_SetCommandValue fails
OnTriggerFailure(e) ==
    IF e = RPC THEN "break"
    ELSE IF e \in CameraTests THEN "return"
    ELSE "ignore"

\* TriggerSelector query and the software trigger command
Trigger ==
    /\ pc = "trigger"
    /\ triggersIssued' = triggersIssued + 1
    /\ \E queryOk \in BOOLEAN, curValue \in {0, 6}, ok \in BOOLEAN :
          /\ lastOp' = [op |-> TriggerCommand(queryOk, curValue), ms |-> 0,
                        queryOk |-> queryOk, selector |-> curValue]
          /\ trigFailedAt' = IF ok THEN trigFailedAt ELSE trigFailedAt \cup {i + 1}
          /\ IF ok \/ OnTriggerFailure(entry) = "ignore"
             THEN pc' = "awaitExposure" /\ UNCHANGED result
             ELSE IF OnTriggerFailure(entry) = "break"
             THEN pc' = "stopProjection" /\ UNCHANGED result
             ELSE pc' = "done" /\ result' = "false"
    /\ UNCHANGED <<inputs, resources, phase, cfgHistory, i, stepsIssued, stepFailed, cbVars>>

\* variant of AwaitExposure: the wait ends only when the frame of this
\* iteration has been handed to the handler
AwaitExposureUntilFrame ==
    /\ pc = "awaitExposure"
    /\ frameIndex >= i + 1
    /\ \E queryOk \in BOOLEAN, cur \in ExposureSamples :
          lastOp' = [op |-> "sleep",
                     ms |-> IF entry = CT1 THEN 100 ELSE ExposureWaitMs(queryOk, cur)]
    /\ i' = i + 1
    /\ pc' = LoopHead(i + 1)
    /\ UNCHANGED <<inputs, result, resources, phase, cfgHistory, stepsIssued,
                   triggersIssued, trigFailedAt, stepFailed, cbVars>>

\* wait for the exposure: ExposureTime query (not in runCameraTest(scalars),
\* which sleeps 100 ms), sleep, ++i
AwaitExposure ==
    /\ pc = "awaitExposure"
    /\ \E queryOk \in BOOLEAN, cur \in ExposureSamples :
          lastOp' = [op |-> "sleep",
                     ms |-> IF entry = CT1 THEN 100 ELSE ExposureWaitMs(queryOk, cur)]
    /\ i' = i + 1
    /\ pc' = LoopHead(i + 1)
    /\ UNCHANGED <<inputs, result, resources, phase, cfgHistory, stepsIssued,
                   triggersIssued, trigFailedAt, stepFailed, cbVars>>

\* runCameraTest(CameraParams): wait before the cleanup
TotalWaitMs(queryOk, cur, frames) ==
    IF queryOk
    THEN LET w == (frames * cur) \div 1000 + frames * 500 + 2000
         IN  IF w > 30000 THEN 30000 ELSE w
    ELSE 5000

\* runCameraTest: wait for the handler to finish writing
PostLoopWait ==
    /\ pc = "postLoopWait"
    /\ \E queryOk \in BOOLEAN, cur \in ExposureSamples :
          lastOp' = [op |-> "sleep",
                     ms |-> IF entry = CT1 THEN 1000 ELSE TotalWaitMs(queryOk, cur, steps)]
    /\ pc' = IF entry = CT2 THEN "verify" ELSE "stopGrabbing"
    /\ UNCHANGED <<inputs, result, resources, phase, cfgHistory, loopVars, cbVars>>

\* the file names the verification pass looks for: I1.png .. I<framesToCapture>.png
ExpectedFiles == {FileName(CT2, k) : k \in 1..steps}

\* savedImageCount: the expected file names that exist in a directory
\* holding the files dir
savedImageCount(dir) == Cardinality(ExpectedFiles \cap dir)

\* runCameraTest(CameraParams): the verification pass.  The save directory
\* holds what the handler has written so far and whatever files of those
\* names it held before the session (stale), which nothing removes.
Verify ==
    /\ pc = "verify"
    /\ \E stale \in SUBSET ExpectedFiles :
          lastOp' = [op |-> "verify", ms |-> 0, stale |-> stale,
                     count |-> savedImageCount(written \cup stale)]
    /\ pc' = "stopGrabbing"
    /\ UNCHANGED <<inputs, result, resources, phase, cfgHistory, loopVars, cbVars>>

\* projector->stop() after the loop (a failure is only logged)
StopProjection ==
    /\ pc = "stopProjection"
    /\ lastOp' = [op |-> "stop", ms |-> 0]
    /\ projecting' = FALSE
    /\ teardownBegun' = TRUE
    /\ pc' = "stopGrabbing"
    /\ UNCHANGED <<inputs, result, projConnected, handleCreated, devOpen, grabbing,
                   ledger, registered, patternsLoaded, cfgHistory, loopVars, cbVars>>

\* MV_CC_StopGrabbing
StopGrabbing ==
    /\ pc = "stopGrabbing"
    /\ lastOp' = [op |-> "StopGrabbing", ms |-> 0]
    /\ Release({"StopGrabbing"})
    /\ pc' = "closeDevice"
    /\ UNCHANGED <<inputs, result, phase, cfgHistory, loopVars, cbVars>>

\* MV_CC_CloseDevice
CloseDevice ==
    /\ pc = "closeDevice"
    /\ lastOp' = [op |-> "CloseDevice", ms |-> 0]
    /\ Release({"CloseDevice"})
    /\ pc' = "destroyHandle"
    /\ UNCHANGED <<inputs, result, phase, cfgHistory, loopVars, cbVars>>

\* MV_CC_DestroyHandle; runCameraTest then returns true
DestroyHandle ==
    /\ pc = "destroyHandle"
    /\ lastOp' = [op |-> "DestroyHandle", ms |-> 0]
    /\ Release({"DestroyHandle"})
    /\ IF entry \in ProjectorEntries
       THEN pc' = "disconnect" /\ UNCHANGED result
       ELSE pc' = "done" /\ result' = "true"
    /\ UNCHANGED <<inputs, phase, cfgHistory, loopVars, cbVars>>

\* projector->disConnect(); return true
DisconnectProjector ==
    /\ pc = "disconnect"
    /\ lastOp' = [op |-> "disConnect", ms |-> 0]
    /\ Release({"disConnect"})
    /\ pc' = "done"
    /\ result' = "true"
    /\ UNCHANGED <<inputs, phase, cfgHistory, loopVars, cbVars>>

\* ---------------------------------------------------------- frame handler
\* variant of Deliver: the counter is read and written back separately, so the
\* increment is lost while another invocation is in flight
DeliverRacy(t) ==
    /\ grabbing /\ registered /\ result = "none"
    /\ cb[t].pc = "idle"
    /\ \A u \in Threads : u < t => cb[u].pc # "idle"
    /\ deliveries < MaxDeliveries
    /\ \E valid \in BOOLEAN :
          IF valid
          THEN /\ deliveries' = deliveries + 1
               /\ frameIndex' = IF \E u \in Threads : cb[u].pc = "save"
                                THEN frameIndex ELSE frameIndex + 1
               /\ cb' = [cb EXCEPT ![t] = [pc |-> "save", idx |-> FrameIdx(frameIndex)]]
               /\ assigned' = Append(assigned, FrameIdx(frameIndex))
          ELSE UNCHANGED <<deliveries, frameIndex, cb, assigned>>
    /\ UNCHANGED <<orchVars, written, writeFailed, discards, latestImage>>

\* ImageCallbackEx, first half: argument checks and the atomic fetch_add.
\* The SDK calls the handler only while grabbing with a registered callback,
\* on the first of its delivery threads that is free.
Deliver(t) ==
    /\ grabbing /\ registered /\ result = "none"
    /\ cb[t].pc = "idle"
    /\ \A u \in Threads : u < t => cb[u].pc # "idle"
    /\ deliveries < MaxDeliveries
    /\ \E valid \in BOOLEAN :
          IF valid
          THEN /\ deliveries' = deliveries + 1
               /\ frameIndex' = frameIndex + 1
               /\ cb' = [cb EXCEPT ![t] = [pc |-> "save", idx |-> FrameIdx(frameIndex)]]
               /\ assigned' = Append(assigned, FrameIdx(frameIndex))
          ELSE UNCHANGED <<deliveries, frameIndex, cb, assigned>>
    /\ UNCHANGED <<orchVars, written, writeFailed, discards, latestImage>>

\* does the handler of entry point e wrap cv::imwrite in try/catch?
CatchesWriteException(e) == e \notin StepOnly

\* does the handler of entry point e print a message for a failed write?
\* An exception is reported where it is caught; a false return of cv::imwrite
\* is examined by the handler of runCameraTest(CameraParams) alone.
LogsWriteFailure(e, how) ==
    IF how = "threw" THEN CatchesWriteException(e) ELSE e = CT2

\* the orchestration thread's variables other than pc and result
orchRest == <<inputs, i, resources, phase, cfgHistory, stepsIssued, triggersIssued,
              trigFailedAt, stepFailed, lastOp>>

\* does the handler of entry point e assign the global g_latestImage (a plain
\* cv::Mat) after a write with this outcome?  Only the handler of
\* runCameraTest(CameraParams) does; an exception skips the assignment.
WritesPreview(e, outcome) == e = CT2 /\ outcome # "threw"

\* another handler invocation is in its second half and may assign
\* g_latestImage too: nothing orders the two assignments
PreviewWriterInFlight(t) ==
    \E u \in Threads : u # t /\ cb[u].pc = "save" /\ ShouldPersist(cb[u].idx)

\* ImageCallbackEx, second half: persist when idx <= totalFrames.
\* cv::imwrite writes the file, returns false, or throws.  An exception the
\* handler does not catch leaves the callback on the SDK's delivery thread:
\* the SDK swallows it or the process is terminated.  Two unordered
\* assignments of g_latestImage are a data race: the object ends up holding a
\* frame, or torn, or the process crashes.
Persist(t) ==
    /\ cb[t].pc = "save"
    /\ result \notin {"crashed", "terminated"}
    /\ cb' = [cb EXCEPT ![t] = [pc |-> "idle", idx |-> 0]]
    /\ IF ShouldPersist(cb[t].idx)
       THEN /\ \E outcome \in {"written", "false", "threw"} :
                 LET escapes == outcome = "threw" /\ ~CatchesWriteException(entry)
                     racy == WritesPreview(entry, outcome) /\ PreviewWriterInFlight(t)
                 IN
                 \E sdkCatches \in (IF escapes THEN BOOLEAN ELSE {TRUE}),
                    race \in (IF racy THEN {"frame", "torn", "crashed"} ELSE {"frame"}) :
                 /\ written' = IF outcome = "written"
                               THEN written \cup {FileName(entry, cb[t].idx)}
                               ELSE written
                 /\ writeFailed' = IF outcome = "written"
                                   THEN writeFailed
                                   ELSE writeFailed \cup {cb[t].idx}
                 /\ latestImage' = IF ~WritesPreview(entry, outcome) THEN latestImage
                                   ELSE IF latestImage = "torn" \/ race # "frame"
                                   THEN "torn"
                                   ELSE "frame"
                 /\ IF escapes /\ ~sdkCatches
                    THEN /\ pc' = "done"
                         /\ result' = "terminated"
                    ELSE IF race = "crashed"
                    THEN /\ pc' = "done"
                         /\ result' = "crashed"
                    ELSE UNCHANGED <<pc, result>>
            /\ UNCHANGED discards
       ELSE /\ discards' = discards + 1
            /\ UNCHANGED <<written, writeFailed, latestImage, pc, result>>
    /\ UNCHANGED <<orchRest, frameIndex, deliveries, assigned>>

\* -------------------------------------------------------------------- Spec
Next ==
    \/ ConnectProjector
    \/ EnumDevices
    \/ CreateHandle
    \/ OpenDevice
    \/ BaseConfig
    \/ ConfigureParams
    \/ PrepareContext
    \/ RegisterCallback
    \/ StartGrabbing
    \/ Generate
    \/ Populate
    \/ Reconnect
    \/ Repopulate
    \/ Warmup
    \/ Project
    \/ Step
    \/ Stabilize
    \/ Trigger
    \/ AwaitExposure
    \/ PostLoopWait
    \/ Verify
    \/ StopProjection
    \/ StopGrabbing
    \/ CloseDevice
    \/ DestroyHandle
    \/ DisconnectProjector
    \/ \E t \in Threads : Deliver(t)
    \/ \E t \in Threads : Persist(t)

Spec == Init /\ [][Next]_vars

\* the steps of the orchestration thread
Orchestration ==
    \/ ConnectProjector \/ EnumDevices \/ CreateHandle \/ OpenDevice
    \/ BaseConfig \/ ConfigureParams \/ PrepareContext \/ RegisterCallback
    \/ StartGrabbing \/ Generate \/ Populate \/ Reconnect \/ Repopulate
    \/ Warmup \/ Project \/ Step \/ Stabilize \/ Trigger \/ AwaitExposure
    \/ PostLoopWait \/ Verify \/ StopProjection \/ StopGrabbing \/ CloseDevice
    \/ DestroyHandle \/ DisconnectProjector

\* Every device call returns and every sleep ends, so the orchestration
\* thread keeps taking steps until it has returned.  Nothing is assumed about
\* the camera's delivery threads: frames may never arrive, and a handler
\* invocation may never finish.
LiveSpec == Spec /\ WF_vars(Orchestration)

TypeOK ==
    /\ entry \in Entries
    /\ steps \in StepsValues
    /\ result \in {"none", "true", "false", "threw", "crashed", "terminated"}
    /\ frameIndex \in 0..MaxDeliveries
    /\ deliveries \in 0..MaxDeliveries
    /\ \A c \in ReleaseCalls : ledger.acquired[c] \in 0..2 /\ ledger.released[c] \in 0..2

\* ------------------------------------------- computations on their own
\* The second specification applies one computation of the program to inputs
\* drawn from bounded sets and records inputs and output in call.  The session
\* variables stay as Init left them.
sessionVars == <<entry, steps, pc, i, result, projConnected, handleCreated, devOpen,
                 grabbing, registered, patternsLoaded, projecting, teardownBegun,
                 ledger, baseRejected, paramRejected, stepsIssued, triggersIssued,
                 trigFailedAt, stepFailed, lastOp, cbVars>>

\* requested parameter values: "not specified", zero, a value inside and a
\* value above every device range of DeviceRanges
ReqValues == {-1, 0, 5, 50}

\* {min, max} a range query (MV_CC_GetFloatValue) reports
DeviceRanges == {[lo |-> 1, hi |-> 10], [lo |-> 5, hi |-> 5], [lo |-> 0, hi |-> 20]}

\* struct CameraParams: the four values (keyed by the camera node they are
\* written to) and the flags
CameraParamsValues ==
    [request : [Params -> ReqValues], exposureAutoMode : BOOLEAN,
     gainAutoMode : BOOLEAN, enableChunkData : BOOLEAN]

\* the parameters configureCameraParams writes: those with a value > 0
Requested(p) == {q \in Params : p.request[q] > 0}

\* one SDK call on a camera node
Cmd(api, key, val) == [api |-> api, key |-> key, val |-> val]

\* variant of ConfigureCommands: a refused frame rate ends the function
ConfigureCommandsRateEnds(p, rej, chunk) ==
    LET r == ConfigureCameraParams(Requested(p), rej)
        Set(q) == IF p.request[q] > 0
                  THEN <<Cmd("SetFloatValue", q, p.request[q])>> ELSE <<>>
        expoAuto == <<Cmd("SetEnumValue", "ExposureAuto", IF p.exposureAutoMode THEN 2 ELSE 0)>>
        gainAuto == <<Cmd("SetEnumValue", "GainAuto", IF p.gainAutoMode THEN 2 ELSE 0)>>
        chunkCmd == IF chunk /\ p.enableChunkData
                    THEN <<Cmd("SetBoolValue", "ChunkModeActive", 1)>> ELSE <<>>
    IN  IF ~r.ok /\ "ExposureTime" \in r.rejected THEN Set("ExposureTime")
        ELSE IF ~r.ok THEN Set("ExposureTime") \o expoAuto \o Set("Gain")
        ELSE IF "AcquisitionFrameRate" \in r.rejected
        THEN Set("ExposureTime") \o expoAuto \o Set("Gain") \o gainAuto
             \o Set("AcquisitionFrameRate")
        ELSE Set("ExposureTime") \o expoAuto \o Set("Gain") \o gainAuto
             \o Set("AcquisitionFrameRate") \o Set("TriggerDelay") \o chunkCmd

\* the SDK calls configureCameraParams makes, up to its return; chunk tells
\* whether the copy has the ChunkModeActive block
ConfigureCommands(p, rej, chunk) ==
    LET r == ConfigureCameraParams(Requested(p), rej)
        Set(q) == IF p.request[q] > 0
                  THEN <<Cmd("SetFloatValue", q, p.request[q])>> ELSE <<>>
        expoAuto == <<Cmd("SetEnumValue", "ExposureAuto", IF p.exposureAutoMode THEN 2 ELSE 0)>>
        gainAuto == <<Cmd("SetEnumValue", "GainAuto", IF p.gainAutoMode THEN 2 ELSE 0)>>
        chunkCmd == IF chunk /\ p.enableChunkData
                    THEN <<Cmd("SetBoolValue", "ChunkModeActive", 1)>> ELSE <<>>
    IN  IF ~r.ok /\ "ExposureTime" \in r.rejected THEN Set("ExposureTime")
        ELSE IF ~r.ok THEN Set("ExposureTime") \o expoAuto \o Set("Gain")
        ELSE Set("ExposureTime") \o expoAuto \o Set("Gain") \o gainAuto
             \o Set("AcquisitionFrameRate") \o Set("TriggerDelay") \o chunkCmd

\* the clamp of the inline parameter block: two successive comparisons
Clamp(v, lo, hi) ==
    LET a == IF v < lo THEN lo ELSE v
    IN  IF a > hi THEN hi ELSE a

\* what the inline block of runCameraTest(scalars) does before the range query
ScalarPrelude(q) ==
    IF q = "ExposureTime" THEN <<Cmd("SetEnumValue", "ExposureAuto", 0)>>
    ELSE IF q = "Gain" THEN <<Cmd("SetEnumValue", "GainAuto", 0)>>
    ELSE IF q = "AcquisitionFrameRate" THEN <<Cmd("SetBoolValue", "AcquisitionFrameRateEnable", 1)>>
    ELSE <<>>

\* the SDK calls of the inline block for one parameter: nothing for a negative
\* request; else the prelude, the range query and, if it answered, the write
ScalarBlock(q, v, range, queryFails) ==
    IF v >= 0
    THEN ScalarPrelude(q) \o <<Cmd("GetFloatValue", q, 0)>>
         \o (IF q \in queryFails THEN <<>>
             ELSE <<Cmd("SetFloatValue", q, Clamp(v, range.lo, range.hi))>>)
    ELSE <<>>

\* the inline parameter block of runCameraTest(scalars), in program order
ScalarCommands(request, range, queryFails) ==
    ScalarBlock("ExposureTime", request["ExposureTime"], range, queryFails)
    \o ScalarBlock("Gain", request["Gain"], range, queryFails)
    \o ScalarBlock("AcquisitionFrameRate", request["AcquisitionFrameRate"], range, queryFails)
    \o ScalarBlock("TriggerDelay", request["TriggerDelay"], range, queryFails)

\* configureCameraParams applied by the entry points that call it
ApplyConfigureCameraParams ==
    /\ call.fn = "none"
    /\ entry # CT1
    /\ \E p \in CameraParamsValues, rej \in ParamFaults({}), range \in DeviceRanges :
          call' = [fn |-> "configureCameraParams",
                   request |-> p.request,
                   auto |-> <<p.exposureAutoMode, p.gainAutoMode>>,
                   range |-> range,
                   queryFails |-> {},
                   refused |-> rej,
                   ok |-> ConfigureCameraParams(Requested(p), rej).ok,
                   cmds |-> ConfigureCommands(p, rej, entry = CT2)]
    /\ UNCHANGED sessionVars

\* the inline parameter block applied by runCameraTest(scalars)
ApplyScalarParamBlock ==
    /\ call.fn = "none"
    /\ entry = CT1
    /\ \E request \in [Params -> ReqValues], range \in DeviceRanges,
          queryFails \in ParamFaults({}) :
          call' = [fn |-> "parameterBlock",
                   request |-> request,
                   auto |-> <<FALSE, FALSE>>,
                   range |-> range,
                   queryFails |-> queryFails,
                   refused |-> queryFails,
                   ok |-> TRUE,
                   cmds |-> ScalarCommands(request, range, queryFails)]
    /\ UNCHANGED sessionVars

\* one timing field value: zero, a sub-millisecond value, a whole number of ms
TimingValues == {0, 500, 4000}

\* timings a PatternOrderSet may carry
Timings == [pre : TimingValues, exp : TimingValues, post : TimingValues]
           \cup {ProgrammedTiming}

\* timing field values at and near the ends of the int range
WideTimingValues == {MinInt32, -1500, 1, MaxInt32}

\* timings whose sum may leave the int range
WideTimings ==
    [pre : WideTimingValues, exp : WideTimingValues, post : WideTimingValues]

\* the pairs of timings (vertical set, horizontal set) the wait is computed for
TimingPairs == (Timings \X Timings) \cup {<<w, w>> : w \in WideTimings}

\* the stabilization wait computed for loop iteration i0 (0-based) when the
\* pattern sets carry the timings sets[1] (vertical) and sets[2] (horizontal)
ApplyWaitMsFromTiming ==
    /\ call.fn = "none"
    /\ entry \in ProjectorEntries
    /\ \E sets \in TimingPairs, i0 \in 0..(LoopCount - 1) :
          call' = [fn |-> "waitMsFromTiming",
                   sets |-> sets,
                   step |-> i0 + 1,
                   ms |-> StabilizationWait(entry, sets[GoverningSet(entry, i0)])]
    /\ UNCHANGED sessionVars

\* ExposureTime values (microseconds) the query may report: zero, below and
\* at one millisecond, the default, around the cap, above it
ExposureTimes == {0, 999, 1000, 10000, 4499999, 4500000, 4501000, 6000000}

\* the wait after a trigger, in the entry points that query ExposureTime
ApplyExposureWait ==
    /\ call.fn = "none"
    /\ entry # CT1
    /\ \E queryOk \in BOOLEAN, cur \in ExposureTimes :
          call' = [fn |-> "exposureWait", queryOk |-> queryOk, cur |-> cur,
                   ms |-> ExposureWaitMs(queryOk, cur)]
    /\ UNCHANGED sessionVars

\* generator arguments explored: width, height, frequency, and N
GenDims == {-1, 0, 1, 2}
GenSteps == -1..MaxN
\* intensity and offset: below, inside and above [0, 255]
GrayArgs == {-5, 100, 300}
\* noiseLevel: none, some
NoiseLevels == {0, 3}
\* states of cv::theRNG() a call may find
RngStates == {1, 2}

\* `if (v < 0) v = 0; if (v > 255) v = 255;`
ClampByte(v) == IF v < 0 THEN 0 ELSE IF v > 255 THEN 255 ELSE v

\* variant of UsesRng: the generator draws from the RNG whatever the level
UsesRngAlways(noiseLevel) == TRUE

\* `if (noiseLevel > 0.0)`: does the generator draw from cv::theRNG()?
UsesRng(noiseLevel) == noiseLevel > 0

\* One generated cv::Mat(height, width, CV_8UC1).  Its pixels are a function of
\* the direction the phase runs along, frequency, clamped intensity and
\* offset, the phase step p of N, and the RNG draws (0: none were made).
FringeImage(alongX, width, height, frequency, intensity, offset, noiseLevel, p, n, rng) ==
    [rows |-> height, cols |-> width, type |-> "CV_8UC1",
     vertical |-> alongX, p |-> p, n |-> n, frequency |-> frequency,
     intensity |-> ClampByte(intensity), offset |-> ClampByte(offset),
     noise |-> IF UsesRng(noiseLevel) THEN rng ELSE 0]

\* variant of generatePhaseShiftFringeImages: the horizontal loop runs first
generateHorizontalFirst(width, height, frequency, intensity, offset, noiseLevel, n, rng) ==
    IF width <= 0 \/ height <= 0 \/ frequency <= 0 \/ n <= 0
    THEN <<>>
    ELSE [k \in 1..n |-> FringeImage(FALSE, width, height, frequency, intensity,
                                     offset, noiseLevel, k - 1, n, rng)]
         \o [k \in 1..n |-> FringeImage(TRUE, width, height, frequency, intensity,
                                        offset, noiseLevel, k - 1, n, rng)]

\* generatePhaseShiftFringeImages: the guard, then the loop of the vertical
\* patterns (phase along x) and the loop of the horizontal ones, each pushing
\* one image per phase step p = 0..N-1
generatePhaseShiftFringeImages(width, height, frequency, intensity, offset, noiseLevel, n, rng) ==
    IF width <= 0 \/ height <= 0 \/ frequency <= 0 \/ n <= 0
    THEN <<>>
    ELSE [k \in 1..n |-> FringeImage(TRUE, width, height, frequency, intensity,
                                     offset, noiseLevel, k - 1, n, rng)]
         \o [k \in 1..n |-> FringeImage(FALSE, width, height, frequency, intensity,
                                        offset, noiseLevel, k - 1, n, rng)]

\* the generator called twice with the same arguments; the RNG is in whatever
\* state earlier code left it
ApplyGenerate ==
    /\ call.fn = "none"
    /\ entry \in ProjectorEntries
    /\ \E width \in GenDims, height \in GenDims, frequency \in GenDims,
          intensity \in GrayArgs, offset \in GrayArgs, noiseLevel \in NoiseLevels,
          n \in GenSteps, rng1 \in RngStates, rng2 \in RngStates :
          call' = [fn |-> "generate", width |-> width, height |-> height,
                   frequency |-> frequency, intensity |-> intensity,
                   offset |-> offset, noiseLevel |-> noiseLevel, n |-> n,
                   rng |-> <<rng1, rng2>>,
                   first |-> generatePhaseShiftFringeImages(width, height, frequency,
                                 intensity, offset, noiseLevel, n, rng1),
                   second |-> generatePhaseShiftFringeImages(width, height, frequency,
                                  intensity, offset, noiseLevel, n, rng2)]
    /\ UNCHANGED sessionVars

\* variant of ArgumentsValid: the context pointer is not examined
ArgumentsValidInfoOnly(infoNull, userNull) == ~infoNull

\* the handler's argument check: `if (!pFrameInfo || !pUser) return;`
ArgumentsValid(infoNull, userNull) == ~infoNull /\ ~userNull

\* one invocation of ImageCallbackEx of entry point e with the frame counter
\* at prev and a frame buffer that is not null: the counter afterwards, the
\* file it writes ("none" for no file), whether it assigns the preview image
\* g_latestImage and whether it counts the call in g_callbackCallCount.  The
\* handler of runCameraTest(CameraParams) treats a null context as preview
\* mode before it comes to the context check.
ImageCallbackEx(e, infoNull, userNull, prev) ==
    IF e = CT2 /\ ~infoNull /\ userNull
    THEN [frameIndex |-> prev, file |-> "none", preview |-> TRUE, counted |-> TRUE]
    ELSE IF ~ArgumentsValid(infoNull, userNull)
    THEN [frameIndex |-> prev, file |-> "none", preview |-> FALSE, counted |-> FALSE]
    ELSE LET idx == FrameIdx(prev)
         IN  [frameIndex |-> prev + 1,
              file |-> IF ShouldPersist(idx) THEN FileName(e, idx) ELSE "none",
              preview |-> ShouldPersist(idx) /\ WritesPreview(e, "written"),
              counted |-> e = CT2]

\* the handler invoked once, with or without a frame-info pointer and a
\* context pointer, at any value of the frame counter
ApplyImageCallback ==
    /\ call.fn = "none"
    /\ \E infoNull \in BOOLEAN, userNull \in BOOLEAN, prev \in 0..MaxDeliveries :
          call' = [fn |-> "ImageCallbackEx", infoNull |-> infoNull,
                   userNull |-> userNull, prev |-> prev,
                   out |-> ImageCallbackEx(entry, infoNull, userNull, prev)]
    /\ UNCHANGED sessionVars

FnNext ==
    \/ ApplyConfigureCameraParams
    \/ ApplyScalarParamBlock
    \/ ApplyWaitMsFromTiming
    \/ ApplyExposureWait
    \/ ApplyGenerate
    \/ ApplyImageCallback

FnSpec == Init /\ [][FnNext]_vars

\* ------------------------------------------------------------- properties
\* the entry point has returned to its caller (true or false)
Returned == result \in {"true", "false"}

\* the orchestration thread has left the acquisition loop
AfterLoop == pc \in {"stopProjection", "postLoopWait", "verify", "stopGrabbing", "closeDevice",
                     "destroyHandle", "disconnect", "done"}

HandlersIdle == \A t \in Threads : cb[t].pc = "idle"

\* C1: whenever the entry point has returned, grabbing is stopped, the device
\* is closed, the handle is destroyed and the projector is disconnected.
C1_TeardownOnEveryExit ==
    Returned => (~grabbing /\ ~devOpen /\ ~handleCreated /\ ~projConnected)

\* C2: when a trigger command fails at step k < LoopCount of a projector entry
\* point (and no step command fails), the loop is not left early: once the
\* loop is over every step and every trigger of the session has been issued
\* and the session was not aborted.
C2_TriggerFailureIsSoft ==
    ( /\ entry \in ProjectorEntries
      /\ \E k \in trigFailedAt : k < LoopCount
      /\ ~stepFailed
      /\ AfterLoop )
    => ( /\ stepsIssued = LoopCount
         /\ triggersIssued = LoopCount
         /\ result # "false" )

\* C3: after K valid deliveries the indices handed out are exactly 1..K, each
\* once, and the counter equals K, whatever the orchestration thread is doing;
\* handler invocations in flight hold pairwise different indices.
C3_IndicesAreOneToK ==
    /\ Len(assigned) = frameIndex
    /\ \A j \in 1..Len(assigned) : assigned[j] = j
    /\ \A t, u \in Threads :
          (t # u /\ cb[t].pc = "save" /\ cb[u].pc = "save") => cb[t].idx # cb[u].idx

\* C3 witness: two handler invocations are in flight at once in the loop
C3_Witness ==
    /\ cb[1].pc = "save" /\ cb[2].pc = "save"
    /\ frameIndex >= 2
    /\ pc = "trigger"

\* C4: every persisted file is the file of an index in 1..totalFrames, so at
\* most totalFrames files are written in a session.
C4_NeverPersistsBeyondTotal ==
    /\ written \subseteq {FileName(entry, k) : k \in 1..totalFrames}
    /\ Cardinality(written) <= Max(totalFrames, 0)

\* C4 witness: more frames than totalFrames were delivered, and some persisted
C4_Witness ==
    /\ frameIndex > totalFrames
    /\ totalFrames >= 1
    /\ HandlersIdle
    /\ Cardinality(written) = totalFrames

\* C5: K <= totalFrames deliveries whose writes all succeeded leave exactly K
\* files, one per index 1..K, under the entry point's naming scheme.
C5_OneFilePerDelivery ==
    (HandlersIdle /\ writeFailed = {} /\ frameIndex <= totalFrames)
    => ( /\ written = {FileName(entry, k) : k \in 1..frameIndex}
         /\ Cardinality(written) = frameIndex )

\* C5 witness: three frames delivered and persisted under three names
C5_Witness ==
    /\ HandlersIdle /\ writeFailed = {}
    /\ frameIndex = 3 /\ frameIndex <= totalFrames
    /\ Cardinality(written) = 3

\* The handler keeps no discard counter: the callback context holds frameIndex,
\* totalFrames, saveDir (and stepsPerOrientation) and the branch taken for
\* idx > totalFrames assigns nothing.
discardCounter == 0

\* C6 as stated: the discard counter equals max(0, valid deliveries - totalFrames)
C6_DiscardCounterKept ==
    HandlersIdle => discardCounter = Max(0, frameIndex - Max(totalFrames, 0))

\* handler invocations in flight that will skip persisting
InFlightDiscards == Cardinality({t \in Threads : cb[t].pc = "save" /\ ~ShouldPersist(cb[t].idx)})

\* C6 amended: a delivery with idx > totalFrames persists nothing; no discard
\* counter exists, but the frame counter still advances, so the invocations
\* that skip persisting number max(0, frameIndex - totalFrames).
C6_DiscardsFollowFrameCounter ==
    /\ discards + InFlightDiscards = Max(0, frameIndex - Max(totalFrames, 0))
    /\ \A k \in (Max(totalFrames, 0) + 1)..(MaxDeliveries + 1) : FileName(entry, k) \notin written

\* C6 witness: two deliveries beyond totalFrames have been skipped
C6_Witness ==
    /\ HandlersIdle
    /\ totalFrames >= 1
    /\ discards = 2
    /\ frameIndex = totalFrames + 2

\* C7: in runProjectorCameraCooperation steps and triggers alternate (a trigger
\* only after its step and the stabilization sleep, the next step only after
\* the trigger and the exposure sleep), 0 <= steps - triggers <= 1 throughout,
\* and a session in which no command fails issues exactly 2N of each.
C7_StepsAndTriggersAlternate ==
    entry = RPC =>
      /\ stepsIssued - triggersIssued \in {0, 1}
      /\ pc = "step" => (stepsIssued = triggersIssued /\ stepsIssued = i
                          /\ lastOp.op \in {"project", "sleep"})
      /\ pc = "stabilize" => (stepsIssued = triggersIssued + 1 /\ lastOp.op = "step")
      /\ pc = "trigger" => (stepsIssued = triggersIssued + 1 /\ stepsIssued = i + 1
                             /\ lastOp = [op |-> "sleep", ms |-> waitMsFromTiming(RPC)])
      /\ pc = "awaitExposure" => (stepsIssued = triggersIssued
                                   /\ lastOp.op \in {"FrameTriggerSoftware", "TriggerSoftware"})
      /\ (result = "true" /\ ~stepFailed /\ trigFailedAt = {})
            => (stepsIssued = 2 * steps /\ triggersIssued = 2 * steps)

\* C7 witness: a complete fault-free session with N = 2
C7_Witness ==
    /\ entry = RPC /\ steps = 2 /\ result = "true"
    /\ ~stepFailed /\ trigFailedAt = {}
    /\ stepsIssued = 4 /\ triggersIssued = 4

\* C8: a step is issued only with the patterns uploaded and the projection
\* started, a trigger only with the handler registered and grabbing started,
\* and neither once teardown has begun.
C8_PhasesInOrder ==
    [][ /\ stepsIssued' > stepsIssued => (patternsLoaded /\ projecting /\ ~teardownBegun)
        /\ triggersIssued' > triggersIssued => (registered /\ grabbing /\ ~teardownBegun)
      ]_vars

\* C9: once the camera has rejected a mandatory base setting no pattern is
\* uploaded, no step or trigger is issued and the entry point returns false.
C9_MandatoryRejectionAborts ==
    (baseRejected \cap MandatorySettings # {})
    => ( /\ ~patternsLoaded
         /\ stepsIssued = 0 /\ triggersIssued = 0
         /\ result \in {"none", "false"}
         /\ pc = "done" => result = "false" )

ParamsApplied == call.fn \in {"configureCameraParams", "parameterBlock"}

\* node of the automatic mode that belongs to a parameter
AutoKey(q) ==
    IF q = "ExposureTime" THEN "ExposureAuto"
    ELSE IF q = "Gain" THEN "GainAuto"
    ELSE "none"

\* C11: for a parameter whose requested value is negative, parameter
\* application issues no call that sets the parameter's value and none that
\* sets its automatic mode.
C11_SentinelLeavesParameterAlone ==
    ParamsApplied =>
      \A q \in Params :
         call.request[q] < 0 =>
            \A k \in 1..Len(call.cmds) :
               \/ call.cmds[k].api = "GetFloatValue"
               \/ call.cmds[k].key \notin {q, AutoKey(q)}

\* C12: every value written is clamp(v, min, max) of the requested v >= 0 and
\* lies in [min, max]; a requested v >= 0 (0 included) whose range is known is
\* written once parameter application has run to its end.
C12_WritesClampedValue ==
    ParamsApplied =>
      /\ \A k \in 1..Len(call.cmds) :
            call.cmds[k].api = "SetFloatValue" =>
               /\ call.request[call.cmds[k].key] >= 0
               /\ call.cmds[k].val = Clamp(call.request[call.cmds[k].key], call.range.lo, call.range.hi)
               /\ call.cmds[k].val >= call.range.lo
               /\ call.cmds[k].val <= call.range.hi
      /\ \A q \in Params :
            (call.ok /\ call.request[q] >= 0 /\ q \notin call.queryFails) =>
               \E k \in 1..Len(call.cmds) :
                  call.cmds[k].api = "SetFloatValue" /\ call.cmds[k].key = q

C14_WriteFailureIsContained ==
    [][ (writeFailed' # writeFailed) =>
           /\ UNCHANGED orchVars
           /\ \A how \in {"false", "threw"} : LogsWriteFailure(entry, how)
           /\ \A k \in writeFailed' \ writeFailed : k \in 1..frameIndex'
           /\ frameIndex' = frameIndex
           /\ assigned' = assigned
      ]_vars

\* programmed window of a PatternOrderSet, microseconds

\* remainder of a / 1000 as the int division leaves it (sign of a)
Rem1000(a) == a - 1000 * TruncDiv(a, 1000)

\* the window of timing t as a mathematical sum, split so that no part leaves
\* the int range: window = 1000 * WindowMs(t) + WindowRem(t), WindowRem in 0..999
WindowMs(t) ==
    TruncDiv(t.pre, 1000) + TruncDiv(t.exp, 1000) + TruncDiv(t.post, 1000)
      + ((Rem1000(t.pre) + Rem1000(t.exp) + Rem1000(t.post)) \div 1000)

WindowRem(t) == (Rem1000(t.pre) + Rem1000(t.exp) + Rem1000(t.post)) % 1000

\* the int sum of the three fields equals their mathematical sum
Fits32(t) ==
    LET sum == Add32(Add32(t.pre, t.exp), t.post)
    IN  sum \div 1000 = WindowMs(t) /\ sum % 1000 = WindowRem(t)

\* pre + exp + post for a window that fits an int (Fits32), where the int sum
\* is the mathematical one
Window(t) == Add32(Add32(t.pre, t.exp), t.post)

\* ms * 1000 >= pre + exp + post, the sum taken mathematically
Covers(ms, t) == ms > WindowMs(t) \/ (ms = WindowMs(t) /\ WindowRem(t) = 0)

\* the PatternOrderSet the claims name for 1-based step k: vertical for
\* k <= N, horizontal after it (the step-only variants have one set)
ExpectedSet(k) == IF entry = RPC /\ k > steps THEN call.sets[2] ELSE call.sets[1]

C16_WaitUsesGoverningSet ==
    (call.fn = "waitMsFromTiming" /\ entry = RPC
       /\ Fits32(call.sets[1]) /\ Fits32(call.sets[2])) =>
       call.ms = (IF call.step <= steps
                  THEN Max(Window(call.sets[1]) \div 1000, 1) + 10
                  ELSE Max(Window(call.sets[2]) \div 1000, 1) + 10)

\* C16 witness: N = 2, step 3, the two sets differ and the horizontal one is used
C16_Witness ==
    /\ call.fn = "waitMsFromTiming"
    /\ entry = RPC /\ steps = 2 /\ call.step = 3
    /\ Window(call.sets[1]) = 12000 /\ Window(call.sets[2]) = 500
    /\ call.ms = 11

TriggerSent == lastOp.op \in {"FrameTriggerSoftware", "TriggerSoftware"}

\* C18: every step that sends a trigger sends exactly one, from the trigger
\* position of the loop, which it leaves; the command is FrameTriggerSoftware
\* when the selector query succeeded with value 0 and TriggerSoftware in
\* every other case; no iteration sends a second command, failed or not.
C18_OneTriggerCommandPerStep ==
    [][ (triggersIssued' # triggersIssued) =>
           /\ triggersIssued' = triggersIssued + 1
           /\ pc = "trigger" /\ pc' # "trigger"
           /\ triggersIssued' = i + 1 /\ i' = i
           /\ (lastOp'.op = "FrameTriggerSoftware")
                 <=> (lastOp'.queryOk /\ lastOp'.selector = 0)
           /\ (lastOp'.op = "TriggerSoftware")
                 <=> ~(lastOp'.queryOk /\ lastOp'.selector = 0)
      ]_vars

\* C18 witness: the second trigger of a session was sent as TriggerSoftware
\* because the selector reports a value other than FrameStart, and it failed
C18_Witness ==
    /\ TriggerSent
    /\ lastOp.op = "TriggerSoftware" /\ lastOp.queryOk /\ lastOp.selector = 6
    /\ triggersIssued = 2 /\ 2 \in trigFailedAt

\* the resources of a session have all been released
Released == ~grabbing /\ ~devOpen /\ ~handleCreated /\ ~projConnected /\ ~projecting

\* C19: whatever the delivery threads do, runProjectorCameraCooperation makes
\* at most 2N loop iterations (steps and triggers), and once the projection
\* has started it reaches teardown and returns.
C19_SessionEndsWithoutHandler ==
    /\ [](entry = RPC => (i <= 2 * steps /\ stepsIssued <= 2 * steps
                           /\ triggersIssued <= 2 * steps))
    /\ (entry = RPC /\ projecting) ~> (pc = "done" /\ result = "true" /\ Released)

\* C19 witness: a session of 2N = 4 iterations has returned although no frame
\* was ever delivered
C19_Witness ==
    /\ entry = RPC /\ steps = 2
    /\ pc = "done" /\ result = "true" /\ Released
    /\ i = 4 /\ deliveries = 0 /\ frameIndex = 0

\* C20: the handler makes no unsynchronized write to memory it shares with
\* another thread: no object other than the atomic counter is ever left in a
\* state that two handler invocations wrote without ordering.
C20_NoUnorderedSharedWrite ==
    latestImage # "torn"

\* no release call was made on a resource that was not held at that moment:
\* nothing is released twice, nothing is released that was never acquired, and
\* no device is closed through a destroyed handle
NoDoubleRelease ==
    /\ ledger.unheld = {}
    /\ \A c \in ReleaseCalls : ledger.released[c] <= ledger.acquired[c]

\* the run of the entry point is over: it returned, or an exception left it
Finished == pc = "done" /\ result \in {"true", "false", "threw"}

\* C21: no resource is released twice or without having been acquired, and
\* when the entry point is over every created handle has been destroyed
\* exactly once and the projector disconnected once per successful connect.
C21_EachResourceReleasedOnce ==
    /\ NoDoubleRelease
    /\ Finished =>
          /\ ledger.released["DestroyHandle"] = ledger.acquired["DestroyHandle"]
          /\ ledger.released["disConnect"] = ledger.acquired["disConnect"]

\* C22: runProjectorCameraCooperation returns true only when no step command
\* failed, i.e. the loop was not abandoned before all 2N patterns were stepped.
C22_TrueOnlyAfterAllSteps ==
    (entry = RPC /\ result = "true") => (~stepFailed /\ stepsIssued = LoopCount)

Generated == call.fn = "generate"

EmptyOnNonPositive ==
    (Generated /\ (call.width <= 0 \/ call.height <= 0 \/ call.frequency <= 0 \/ call.n <= 0))
    => call.first = <<>>

\* C24: when the generator has returned an empty result the entry point is
\* over at once: it has released what it held and returned false, and no
\* pattern set is uploaded for a session whose N is not positive.
C24_EmptyGenerationIsFatal ==
    /\ (lastOp.op = "generate" /\ lastOp.count = 0)
       => /\ pc = "done" /\ result = "false"
          /\ ~grabbing /\ ~devOpen /\ ~handleCreated /\ ~projConnected
    /\ (entry \in ProjectorEntries /\ steps <= 0)
       => (~patternsLoaded /\ ~projecting /\ result # "true")

\* the pattern sets of this session have just been handed to the projector
Uploaded ==
    /\ lastOp.op = "populatePatternTableData"
    /\ "sets" \in DOMAIN lastOp
    /\ lastOp.count = steps * 2

\* the (0-based) image indices from..to-1 in order
Indices(from, to) == [k \in 1..(to - from) |-> from + k - 1]

\* a failed upload ends the session: nothing is projected or stepped and the
\* entry point has returned false (a handler still in flight may end the
\* process after that)
UploadFailureIsFatal ==
    (lastOp.op = "populatePatternTableData" /\ ~lastOp.ok)
    => (pc = "done" /\ result \in {"false", "terminated"} /\ ~projecting /\ stepsIssued = 0)

\* C25 as stated: every session uploads exactly two PatternSets, the vertical
\* one with images 0..N-1 and the horizontal one with images N..2N-1.
C25_TwoPatternSets ==
    /\ Uploaded =>
          /\ Len(lastOp.sets) = 2
          /\ lastOp.sets[1] = [isVertical_ |-> TRUE, imgs_ |-> Indices(0, steps)]
          /\ lastOp.sets[2] = [isVertical_ |-> FALSE, imgs_ |-> Indices(steps, steps * 2)]
    /\ UploadFailureIsFatal

\* C25 amended: runProjectorCameraCooperation uploads those two PatternSets;
\* the vertical-only and horizontal-only entry points upload the one set of
\* their orientation (images 0..N-1, respectively N..2N-1).  Every uploaded set
\* holds exactly N images, and a failed upload is fatal.
C25_PatternSetsPerEntryPoint ==
    /\ Uploaded =>
          /\ \A k \in 1..Len(lastOp.sets) : Len(lastOp.sets[k].imgs_) = steps
          /\ lastOp.sets =
                SelectSeq(<< [isVertical_ |-> TRUE, imgs_ |-> Indices(0, steps)],
                             [isVertical_ |-> FALSE, imgs_ |-> Indices(steps, steps * 2)] >>,
                          LAMBDA ps : entry = RPC \/ (ps.isVertical_ <=> entry = RV))
    /\ UploadFailureIsFatal

\* C25 witness: runProjectorCameraCooperation with N = 2 has uploaded its sets
C25_Witness ==
    /\ entry = RPC /\ steps = 2
    /\ Uploaded /\ lastOp.ok
    /\ pc = "project"

\* C26: when the camera refuses TriggerSelector = "FrameStart" the numeric
\* selector 6 is tried next; the session goes on if the camera accepts either
\* and is aborted when it refuses both.
C26_SelectorFallback ==
    (lastOp.op = "baseConfig" /\ "TriggerSelector" \in lastOp.refused)
    => /\ \E k \in 1..(Len(lastOp.issued) - 1) :
             /\ lastOp.issued[k] = "TriggerSelector"
             /\ lastOp.issued[k + 1] = "TriggerSelectorByValue"
       /\ IF "TriggerSelectorByValue" \in lastOp.refused
          THEN pc = "done" /\ result = "false"
          ELSE pc = "configure" /\ result = "none"

\* C27: with noiseLevel = 0 two calls with the same arguments return the same
\* images, whatever state the random generator is in at each call.
C27_DeterministicWithoutNoise ==
    (Generated /\ call.noiseLevel = 0) => call.first = call.second

\* C27 witness: two calls without noise, made with the random generator in
\* different states, that returned images
C27_Witness ==
    /\ Generated
    /\ call.noiseLevel = 0
    /\ call.rng[1] # call.rng[2]
    /\ Len(call.first) = 4
    /\ call.first = call.second

\* C28: every write of an exposure or gain value is preceded, in the same
\* parameter application, by the command that switches the parameter's
\* automatic mode off.
C28_AutoOffBeforeValue ==
    ParamsApplied =>
      \A k \in 1..Len(call.cmds) :
         (call.cmds[k].api = "SetFloatValue" /\ call.cmds[k].key \in {"ExposureTime", "Gain"})
         => \E j \in 1..(k - 1) :
               call.cmds[j] = Cmd("SetEnumValue", AutoKey(call.cmds[k].key), 0)

\* the nodes that belong to a parameter: its value, its automatic mode, its
\* enable switch
ParamKeys(q) ==
    IF q = "AcquisitionFrameRate" THEN {q, "AcquisitionFrameRateEnable"}
    ELSE {q, AutoKey(q)}

\* the commands of a command list that concern parameter q
CmdsFor(cmds, q) == SelectSeq(cmds, LAMBDA c : c.key \in ParamKeys(q))

\* the commands the same parameter application issues on a device that
\* refuses nothing
Unrefused ==
    IF call.fn = "configureCameraParams"
    THEN ConfigureCommands([request |-> call.request,
                            exposureAutoMode |-> call.auto[1],
                            gainAutoMode |-> call.auto[2],
                            enableChunkData |-> FALSE], {}, FALSE)
    ELSE ScalarCommands(call.request, call.range, {})

C30_WaitCoversExposure ==
  (call.fn = "exposureWait" /\ call.queryOk) => call.ms * 1000 >= call.cur

\* C30 (amended): the wait covers the reported exposure, with at least 500 ms
\* to spare, as long as the exposure is at most 4 500 000 us; above that the
\* wait is the 5000 ms cap, which is shorter than any exposure over 5 000 000 us;
\* when the exposure query fails the wait is 1000 ms.
C30_WaitCoversExposureUpToCap ==
  call.fn = "exposureWait" =>
    IF call.queryOk
      THEN /\ call.cur <= 4500000 => call.ms * 1000 >= call.cur + 499001
           /\ call.cur > 4500000 => call.ms = 5000
           /\ call.cur > 5000000 => call.ms * 1000 < call.cur
      ELSE call.ms = 1000

\* the longest exposure the uncapped formula still covers has been waited for
C30_Witness ==
  /\ call.fn = "exposureWait"
  /\ call.queryOk
  /\ call.cur = 4499999
  /\ call.ms = 4999

ProjectionStart == lastOp.op = "project" /\ "settle" \in DOMAIN lastOp

\* C32: projection is started in continuous mode after the pattern upload and
\* before the first step, followed by the startup settle delay; if the start
\* fails, no step or trigger is issued, camera and projector are released and
\* the entry point returns false.
C32_ContinuousProjectionBeforeSteps ==
    ProjectionStart =>
       IF lastOp.ok
       THEN /\ lastOp.continuous
            /\ patternsLoaded
            /\ stepsIssued = 0
            /\ lastOp.settle > 0
       ELSE /\ pc = "done" /\ result \in {"false", "terminated"}
            /\ stepsIssued = 0 /\ triggersIssued = 0
            /\ Released

\* loop iterations (= pattern steps, 1-based) whose trigger command succeeded
SuccessfulTriggers == (1..triggersIssued) \ trigFailedAt

\* the step whose trigger produced the k-th frame handed to the handler, for a
\* camera that delivers one frame per successful trigger in trigger order
OriginStep(k) ==
    CHOOSE s \in SuccessfulTriggers :
        Cardinality({r \in SuccessfulTriggers : r < s}) = k - 1

\* the camera has delivered no frame without a successful trigger command
OneFramePerTrigger == Len(assigned) <= Cardinality(SuccessfulTriggers)

\* C33: with one frame per successful trigger, delivered in trigger order,
\* every persisted frame is stored under the number of the step whose trigger
\* produced it, also in sessions where some trigger command failed.
C33_FrameStoredUnderItsStep ==
    OneFramePerTrigger =>
       \A k \in 1..Len(assigned) :
          FileName(entry, assigned[k]) \in written => OriginStep(k) = assigned[k]

\* the entry point has been left, by a return or by an exception: its local
\* callback context no longer exists
ContextDestroyed == pc = "done" /\ result \in {"true", "false", "threw"}

\* C34: no handler invocation can run after the callback context has been
\* destroyed: whenever the entry point has been left after StartGrabbing
\* succeeded, StopGrabbing has been called and the camera no longer grabs.
C34_GrabbingStoppedBeforeReturn ==
    ContextDestroyed =>
       /\ ledger.released["StopGrabbing"] >= ledger.acquired["StopGrabbing"]
       /\ ~grabbing

\* C35: the number the verification pass of runCameraTest reports equals the
\* number of frames the handler persisted during this session (between 0 and
\* framesToCapture), whatever the delivery schedule and whatever files the
\* save directory held before.
C35_VerificationCountsSessionFrames ==
    lastOp.op = "verify" =>
       /\ lastOp.count = Cardinality(written)
       /\ lastOp.count \in 0..steps

\* C36: a handler invocation whose frame-info pointer or context pointer is
\* null leaves the frame counter where it was and writes no file, so it
\* consumes no index and later valid frames keep theirs.
C36_InvalidInvocationConsumesNoIndex ==
    (call.fn = "ImageCallbackEx" /\ (call.infoNull \/ call.userNull)) =>
       /\ call.out.frameIndex = call.prev
       /\ call.out.file = "none"

\* C36 witness: a null context with the counter at 1 leaves it at 1, and the
\* handler of runCameraTest(CameraParams) has taken its preview branch
C36_Witness ==
    /\ call.fn = "ImageCallbackEx"
    /\ entry = CT2 /\ steps = 2
    /\ ~call.infoNull /\ call.userNull
    /\ call.prev = 1 /\ call.out.frameIndex = 1
    /\ call.out.preview /\ call.out.file = "none"

====
